---------------------------- MODULE Spec2Model ----------------------------
(***************************************************************************)
(* Model of src/chat.py, a Streamlit chat front-end.  One execution of the *)
(* script (a "run") renders the conversation log, reads the widgets and,   *)
(* when a prompt is present, assembles a user message, appends it, issues  *)
(* one remote generation call and appends the model's answer.              *)
(*                                                                         *)
(* Python values are records tagged by kind: None, str (a sequence of      *)
(* one-character strings), bytes of an uploaded file (a sequence of        *)
(* integers), images.  Exceptions are records [type, msg].                 *)
(***************************************************************************)
EXTENDS Integers, Sequences, FiniteSets, TLC

VARIABLES
    welcome,        \* st.session_state.welcome: None until the greeting was generated
    chat_session,   \* st.session_state.chat_session: the conversation log
    pc,             \* "idle" (no run in progress) or "awaiting_response"
    prmt,           \* the user message assembled by the run in progress
    calls,          \* the remote calls issued for user messages so far, in order
    notices,        \* st.info/st.warning/st.error shown by the latest run
    decoded,        \* the attachment sources the latest run tried to decode
    raised,         \* the exception that ended the latest run, or None
    appended,       \* the arguments append_message was called with, in order
    charts,         \* the graphs st.graphviz_chart drew in the latest run
    runs,           \* number of script runs made once the greeting exists
    widgets         \* what the latest run read from the widgets and the outside world

vars == <<welcome, chat_session, pc, prmt, calls, notices, decoded, raised, appended,
          charts, runs, widgets>>

-----------------------------------------------------------------------------
(* Bounds of the model *)

MaxRuns == 2            \* script runs in the session specification
MaxFragments == 4       \* fragments a rendered response text is built from

-----------------------------------------------------------------------------
(* Python values *)

None == [kind |-> "none"]
Str(cs) == [kind |-> "str", chars |-> cs]
Exc(t, m) == [kind |-> "exception", type |-> t, msg |-> m]

\* Exception type names and descriptions, as Python strings.
TyUnicodeDecodeError == <<"U", "n", "i", "c", "o", "d", "e", "D", "e", "c", "o", "d", "e", "E", "r", "r", "o", "r">>
TyConnectionError == <<"C", "o", "n", "n", "e", "c", "t", "i", "o", "n", "E", "r", "r", "o", "r">>
TyUnidentifiedImageError == <<"U", "n", "i", "d", "e", "n", "t", "i", "f", "i", "e", "d", "I", "m", "a", "g", "e", "E", "r", "r", "o", "r">>
TyValueError == <<"V", "a", "l", "u", "e", "E", "r", "r", "o", "r">>
TyServiceUnavailable == <<"S", "e", "r", "v", "i", "c", "e", "U", "n", "a", "v", "a", "i", "l", "a", "b", "l", "e">>
MsgBadByte == <<"b", "a", "d", " ", "b", "y", "t", "e">>
MsgDown == <<"d", "o", "w", "n">>
MsgNoImage == <<"n", "o", " ", "i", "m", "a", "g", "e">>
MsgBlocked == <<"b", "l", "o", "c", "k", "e", "d">>
MsgOverloaded == <<"5", "0", "3">>

\* Python truthiness of the values the script tests with `if`.
Truthy(v) ==
    CASE v.kind = "none" -> FALSE
      [] v.kind = "str"  -> Len(v.chars) > 0
      [] OTHER           -> TRUE

\* `pat in s` for strings.
Contains(s, pat) ==
    \E i \in 0..(Len(s) - Len(pat)) : SubSeq(s, i + 1, i + Len(pat)) = pat

\* Index of the first occurrence of pat in s at or after position from, 0 if none.
Find(s, pat, from) ==
    LET hits == {i \in from..(Len(s) - Len(pat) + 1) :
                    SubSeq(s, i, i + Len(pat) - 1) = pat}
    IN  IF hits = {} THEN 0 ELSE CHOOSE i \in hits : \A j \in hits : i <= j

\* str.split(sep): leftmost, non-overlapping occurrences of sep.
RECURSIVE Split(_, _)
Split(s, sep) ==
    LET i == Find(s, sep, 1)
    IN  IF i = 0 THEN <<s>>
        ELSE <<SubSeq(s, 1, i - 1)>> \o Split(SubSeq(s, i + Len(sep), Len(s)), sep)


-----------------------------------------------------------------------------
(* Functions of the script *)

\* A character is a one-character string, except those a string literal of this
\* language cannot hold, which are named: the backtick and U+00E9.
Backtick == "BACKTICK"
EAcute == "U+00E9"
Fence == <<Backtick, Backtick, Backtick>>
KwGraph == <<"g", "r", "a", "p", "h">>
KwDigraph == <<"d", "i", "g", "r", "a", "p", "h">>

\* The filter of extract_graphviz_info, line 34.
LooksLikeGraph(graph) ==
    /\ Contains(graph, KwGraph) \/ Contains(graph, KwDigraph)
    /\ Contains(graph, <<"{">>) /\ Contains(graph, <<"}">>)

\* extract_graphviz_info(text): every piece of text split on the fence that passes
\* the filter, in order.
extract_graphviz_info(text) ==
    SelectSeq(Split(text, Fence), LooksLikeGraph)

\* A variant of append_message that inserts at the front.
append_message_front(log, message) == <<[user |-> message]>> \o log

\* append_message(message), applied to the log it appends to.
append_message(log, message) == Append(log, [user |-> message])

\* The rendering loop, lines 84-99: the graphs charted for the log, in order.
\* Only model messages are searched; their 'parts' is a str.
RECURSIVE RenderCharts(_)
RenderCharts(log) ==
    IF log = <<>> THEN <<>>
    ELSE LET message == Head(log)
         IN  (IF message.user.role = "model"
              THEN extract_graphviz_info(message.user.parts.chars)
              ELSE <<>>) \o RenderCharts(Tail(log))

-----------------------------------------------------------------------------
(* Speech input, lines 130-167 *)

Notice(level, text) == [level |-> level, text |-> text]

SpeechFailures ==
    {"mic_list_error", "no_microphone", "mic_open_error", "unintelligible",
     "service_unreachable"}

\* check_microphone(), lines 135-144: its result and what it shows.
check_microphone(speech) ==
    CASE speech.outcome = "mic_list_error" ->
            [ok |-> FALSE, notices |-> <<Notice("error", "Error checking microphone")>>]
      [] speech.outcome = "no_microphone" ->
            [ok |-> FALSE, notices |-> <<>>]
      [] OTHER ->
            [ok |-> TRUE, notices |-> <<>>]

\* A variant of ListenPrompt whose handler of unintelligible speech sends a
\* question mark instead of clearing the prompt.
ListenPromptLeaky(speech) ==
    LET mic == check_microphone(speech)
    IN  IF ~mic.ok
        THEN [prompt |-> None,
              notices |-> mic.notices \o <<Notice("warning", "No microphone found")>>]
        ELSE CASE speech.outcome = "mic_open_error" ->
                    [prompt |-> None,
                     notices |-> <<Notice("error", "An error occurred")>>]
               [] speech.outcome = "unintelligible" ->
                    [prompt |-> Str(<<"?">>),
                     notices |-> <<Notice("info", "Speak now..."),
                                   Notice("warning", "Sorry, I couldn't understand what you said.")>>]
               [] speech.outcome = "service_unreachable" ->
                    [prompt |-> None,
                     notices |-> <<Notice("info", "Speak now..."),
                                   Notice("error", "Could not request results from Google Speech Recognition service.")>>]
               [] OTHER ->
                    [prompt |-> speech.transcript,
                     notices |-> <<Notice("info", "Speak now...")>>]

\* Lines 147-165: the prompt obtained from the microphone and what is shown.
ListenPrompt(speech) ==
    LET mic == check_microphone(speech)
    IN  IF ~mic.ok
        THEN [prompt |-> None,
              notices |-> mic.notices \o <<Notice("warning", "No microphone found")>>]
        ELSE CASE speech.outcome = "mic_open_error" ->
                    [prompt |-> None,
                     notices |-> <<Notice("error", "An error occurred")>>]
               [] speech.outcome = "unintelligible" ->
                    [prompt |-> None,
                     notices |-> <<Notice("info", "Speak now..."),
                                   Notice("warning", "Sorry, I couldn't understand what you said.")>>]
               [] speech.outcome = "service_unreachable" ->
                    [prompt |-> None,
                     notices |-> <<Notice("info", "Speak now..."),
                                   Notice("error", "Could not request results from Google Speech Recognition service.")>>]
               [] OTHER ->
                    [prompt |-> speech.transcript,
                     notices |-> <<Notice("info", "Speak now...")>>]

\* Lines 130-167: audio input when the toggle is on, the chat box otherwise.
ReadPrompt(in) ==
    IF in.audio_input THEN ListenPrompt(in.speech)
    ELSE [prompt |-> in.typed, notices |-> <<>>]

-----------------------------------------------------------------------------
(* Text attachment, lines 170-176 *)

AttLimit == 5000
Label == <<" ", " ", " ", "T", "e", "x", "t", " ", "f", "i", "l", "e", ":", " ", "\n">>
Ellipsis == <<".", ".", ".">>

\* bytes.decode("utf-8"), for one- and two-byte sequences: the uploaded files
\* of this model hold ASCII bytes, the two bytes of U+00E9 and the byte 0xFF.
IsAscii(b) == b < 128
IsCont(b) == b >= 128 /\ b <= 191
IsLead2(b) == b >= 194 /\ b <= 223

CodePointChr(cp) ==
    CASE cp = 97  -> "a"
      [] cp = 98  -> "b"
      [] cp = 233 -> EAcute

Utf8Decode(bytes) ==
    LET n == Len(bytes)
        WellFormed(i) ==
            \/ IsAscii(bytes[i])
            \/ IsLead2(bytes[i]) /\ i < n /\ IsCont(bytes[i + 1])
            \/ IsCont(bytes[i]) /\ i > 1 /\ IsLead2(bytes[i - 1])
        Starts(i) == ~IsCont(bytes[i])
        starts == SelectSeq([i \in 1..n |-> i], Starts)
        CharAt(i) ==
            IF IsAscii(bytes[i]) THEN CodePointChr(bytes[i])
            ELSE CodePointChr((bytes[i] - 192) * 64 + (bytes[i + 1] - 128))
    IN  IF \A i \in 1..n : WellFormed(i)
        THEN [ok |-> TRUE, chars |-> [k \in 1..Len(starts) |-> CharAt(starts[k])]]
        ELSE [ok |-> FALSE,
              exc |-> Exc(TyUnicodeDecodeError, MsgBadByte)]

\* A variant of Truncate that cuts at the limit, not above it.
TruncateFromLimit(txt) ==
    IF Len(txt) >= AttLimit THEN SubSeq(txt, 1, AttLimit) \o Ellipsis ELSE txt

\* Lines 175-176.
Truncate(txt) ==
    IF Len(txt) > AttLimit THEN SubSeq(txt, 1, AttLimit) \o Ellipsis ELSE txt

\* Lines 170-176: the text added to the prompt, or the exception of the decode.
AttachmentText(txtattachment) ==
    IF ~Truthy(txtattachment)
    THEN [ok |-> TRUE, txt |-> Truncate(<<>>)]
    ELSE LET d == Utf8Decode(txtattachment.bytes)
         IN  IF d.ok THEN [ok |-> TRUE, txt |-> Truncate(Label \o d.chars)]
             ELSE [ok |-> FALSE, exc |-> d.exc]

-----------------------------------------------------------------------------
(* Image acquisition, lines 178-182 *)

Upload(name, isImage) == [kind |-> "upload", name |-> name, isImage |-> isImage]

UrlImage == Str(<<"i">>)    \* serves an image
UrlPage == Str(<<"p">>)     \* serves something that is no image
UrlDown == Str(<<"d">>)     \* cannot be reached

\* requests.get(url, stream=True).raw
HttpGet(url) ==
    IF url = UrlDown
    THEN [ok |-> FALSE, exc |-> Exc(TyConnectionError, MsgDown)]
    ELSE [ok |-> TRUE,
          raw |-> [kind |-> "stream", name |-> url.chars, isImage |-> (url = UrlImage)]]

\* A variant of Image.open that never rejects its input.
ImageOpenLenient(fp, origin) ==
    [ok |-> TRUE, img |-> [kind |-> "image", origin |-> origin, name |-> fp.name]]

\* Image.open(fp): the image, tagged with where its bytes came from.
ImageOpen(fp, origin) ==
    IF fp.isImage
    THEN [ok |-> TRUE, img |-> [kind |-> "image", origin |-> origin, name |-> fp.name]]
    ELSE [ok |-> FALSE, exc |-> Exc(TyUnidentifiedImageError, MsgNoImage)]

\* A variant of lines 179-182 that tries the upload first.
AcquireImageUploadFirst(image, url) ==
    IF Truthy(image)
    THEN [tried |-> {"upload"}] @@ ImageOpen(image, "upload")
    ELSE LET r == HttpGet(url)
         IN  IF r.ok THEN [tried |-> {"url"}] @@ ImageOpen(r.raw, "url")
             ELSE [ok |-> FALSE, exc |-> r.exc, tried |-> {"url"}]

\* Lines 179-182, entered when `image or url`: the URL is tried first.  The
\* field tried names the sources the code touched.
AcquireImage(image, url) ==
    IF Truthy(url)
    THEN LET r == HttpGet(url)
         IN  IF r.ok THEN [tried |-> {"url"}] @@ ImageOpen(r.raw, "url")
             ELSE [ok |-> FALSE, exc |-> r.exc, tried |-> {"url"}]
    ELSE [tried |-> {"upload"}] @@ ImageOpen(image, "upload")

\* Lines 183 and 185.
UserMessage(prompt, txt, imgs) ==
    [role |-> "user", parts |-> <<Str(prompt.chars \o txt)>> \o imgs]

\* Lines 170-185 for a truthy prompt: the assembled message, or the exception
\* that ends the run before append_message.
Assemble(prompt, txtattachment, image, url) ==
    LET t == AttachmentText(txtattachment)
        seen == IF Truthy(txtattachment) THEN {"txt"} ELSE {}
    IN  IF ~t.ok THEN [ok |-> FALSE, exc |-> t.exc, tried |-> seen]
        ELSE IF Truthy(image) \/ Truthy(url)
        THEN LET a == AcquireImage(image, url)
             IN  IF a.ok
                 THEN [ok |-> TRUE, tried |-> seen \cup a.tried,
                       prmt |-> UserMessage(prompt, t.txt, <<a.img>>)]
                 ELSE [ok |-> FALSE, exc |-> a.exc, tried |-> seen \cup a.tried]
        ELSE [ok |-> TRUE, tried |-> seen, prmt |-> UserMessage(prompt, t.txt, <<>>)]

-----------------------------------------------------------------------------
(* Model invocation, lines 189-202 *)

\* A variant of lines 190-197 that always uses the chat handle.
RouteAlwaysChat(message) == [api |-> "chat.send_message", arg |-> message.parts[1]]

\* Lines 190-197: the call issued for an assembled message.
Route(message) ==
    IF Len(message.parts) > 1
    THEN [api |-> "vision.generate_content", arg |-> message.parts]
    ELSE [api |-> "chat.send_message", arg |-> message.parts[1]]

\* A variant of lines 199-202 that files the error text under the role 'ai'.
ModelMessageAsAi(response) ==
    IF response.text.kind = "str"
    THEN [role |-> "model", parts |-> response.text]
    ELSE [role |-> "ai",
          parts |-> Str(response.text.type \o <<":", " ">> \o response.text.msg)]

\* Lines 199-202: response.text either is a str or raises; the except clause
\* turns the exception into the text "<type name>: <description>".
ModelMessage(response) ==
    IF response.text.kind = "str"
    THEN [role |-> "model", parts |-> response.text]
    ELSE [role |-> "model",
          parts |-> Str(response.text.type \o <<":", " ">> \o response.text.msg)]

-----------------------------------------------------------------------------
(* What the user and the outside world can supply to one run *)

File(bytes) == [kind |-> "file", bytes |-> bytes]

TextHi == Str(<<"h", "i">>)
NoSpeech == [outcome |-> "none", transcript |-> None]
Speeches ==
    {[outcome |-> o, transcript |-> None] : o \in SpeechFailures}
        \cup {[outcome |-> "recognized", transcript |-> TextHi]}

\* The widget values of a run: the toggles of lines 113-128 leave image, url and
\* txtattachment at None or '' when they are off.
Widgets(typedSet, fileSet, imageSet, urlSet) ==
    [audio_input : {FALSE}, speech : {NoSpeech}, typed : typedSet,
     txtattachment : fileSet, image : imageSet, url : urlSet]
    \cup
    [audio_input : {TRUE}, speech : Speeches, typed : {None},
     txtattachment : fileSet, image : imageSet, url : urlSet]

SessionInputs ==
    Widgets({None, TextHi},
            {None, File(<<97, 98>>), File(<<97, 255>>)},
            {None, Upload("cat.png", TRUE), Upload("notes.png", FALSE)},
            {Str(<<>>), UrlImage, UrlPage, UrlDown})

\* What the remote service can answer: a response whose text is a str, a
\* response whose text raises, or an exception raised by the call itself.
TextGraph ==
    Str(<<"s", "e", "e", " ">> \o Fence \o KwDigraph \o <<"{", "a", "}">> \o Fence)
Responses ==
    {[kind |-> "response", text |-> TextGraph],
     [kind |-> "response", text |-> Exc(TyValueError, MsgBlocked)]}
CallFailures == {Exc(TyServiceUnavailable, MsgOverloaded)}

-----------------------------------------------------------------------------
(* The session *)

Init ==
    /\ welcome = None
    /\ chat_session = <<>>
    /\ pc = "idle"
    /\ prmt = None
    /\ calls = <<>>
    /\ notices = <<>>
    /\ decoded = {}
    /\ raised = None
    /\ appended = <<>>
    /\ charts = <<>>
    /\ runs = 0
    /\ widgets = None

\* The run st.rerun() or a page load starts: no prompt is pending, every
\* toggle is off.
QuietWidgets ==
    [audio_input |-> FALSE, speech |-> NoSpeech, typed |-> None,
     txtattachment |-> None, image |-> None, url |-> Str(<<>>)]

\* A run while the session has no greeting, lines 71-79: the greeting is
\* generated before anything is rendered, so the widgets hold their defaults.
\* An exception of generate_content or resolve ends the run with no greeting
\* stored; a response is stored before its text is read, and a text that
\* raises ends the run.
WelcomeRun(outcome) ==
    /\ pc = "idle"
    /\ welcome = None
    /\ IF outcome.kind = "exception"
       THEN /\ raised' = outcome
            /\ UNCHANGED <<welcome, chat_session, pc, prmt, calls, notices, decoded,
                           appended, charts, runs, widgets>>
       ELSE /\ welcome' = outcome
            /\ IF outcome.text.kind = "exception"
               THEN /\ raised' = outcome.text
                    /\ UNCHANGED <<chat_session, pc, prmt, calls, notices, decoded,
                                   appended, charts, runs, widgets>>
               ELSE /\ raised' = None
                    /\ charts' = RenderCharts(chat_session)
                    /\ widgets' = QuietWidgets
                    /\ notices' = ReadPrompt(QuietWidgets).notices
                    /\ decoded' = {}
                    /\ prmt' = None
                    /\ UNCHANGED <<chat_session, pc, calls, appended, runs>>

\* A run of a session whose stored greeting has no text, lines 80-82: reading
\* it raises before anything else is rendered.
GreetingRaises ==
    /\ pc = "idle"
    /\ welcome # None
    /\ welcome.text.kind = "exception"
    /\ raised' = welcome.text
    /\ UNCHANGED <<welcome, chat_session, pc, prmt, calls, notices, decoded, appended,
                   charts, runs, widgets>>

\* One run of the script once the greeting can be shown, lines 80-197, up to
\* the point where it blocks in the remote call or ends.
ScriptRun(in, maxRuns) ==
    /\ pc = "idle"
    /\ welcome # None
    /\ welcome.text.kind = "str"
    /\ UNCHANGED welcome
    /\ runs < maxRuns
    /\ runs' = runs + 1
    /\ widgets' = in
    /\ charts' = RenderCharts(chat_session)
    /\ LET heard == ReadPrompt(in)
           prompt == heard.prompt
       IN  /\ notices' = heard.notices
           /\ IF ~Truthy(prompt)
              THEN /\ decoded' = {}
                   /\ raised' = None
                   /\ prmt' = None
                   /\ UNCHANGED <<chat_session, pc, calls, appended>>
              ELSE LET a == Assemble(prompt, in.txtattachment, in.image, in.url)
                   IN  /\ decoded' = a.tried
                       /\ IF ~a.ok
                          THEN /\ raised' = a.exc
                               /\ prmt' = None
                               /\ UNCHANGED <<chat_session, pc, calls, appended>>
                          ELSE /\ raised' = None
                               /\ prmt' = a.prmt
                               /\ chat_session' = append_message(chat_session, a.prmt)
                               /\ appended' = Append(appended, a.prmt)
                               /\ calls' = Append(calls, Route(a.prmt))
                               /\ pc' = "awaiting_response"

\* Lines 199-204: the remote call returned; the answer (or the exception of
\* response.text) is appended, and st.rerun() ends the run.
RemoteReturns(response) ==
    /\ pc = "awaiting_response"
    /\ chat_session' = append_message(chat_session, ModelMessage(response))
    /\ appended' = Append(appended, ModelMessage(response))
    /\ pc' = "idle"
    /\ UNCHANGED <<welcome, prmt, calls, notices, decoded, raised, charts, runs, widgets>>

\* Lines 190-197 lie outside the try of line 199: an exception raised by
\* generate_content, resolve or send_message ends the run.
RemoteRaises(e) ==
    /\ pc = "awaiting_response"
    /\ raised' = e
    /\ pc' = "idle"
    /\ UNCHANGED <<welcome, chat_session, prmt, calls, notices, decoded, appended,
                   charts, runs, widgets>>

FirstRun == \E outcome \in Responses \cup CallFailures : WelcomeRun(outcome)
Run == \E in \in SessionInputs : ScriptRun(in, MaxRuns)
Returns == \E response \in Responses : RemoteReturns(response)
Raises == \E e \in CallFailures : RemoteRaises(e)

Next == FirstRun \/ GreetingRaises \/ Run \/ Returns \/ Raises

Spec == Init /\ [][Next]_vars

-----------------------------------------------------------------------------
(* The session with text attachments around the truncation limit *)

\* An ASCII file of n bytes, and a file of n characters whose first one is the
\* two-byte U+00E9.
AsciiFile(n) == File([i \in 1..n |-> IF i % 2 = 1 THEN 97 ELSE 98])
AccentFile(n) == File(<<195, 169>> \o [i \in 1..(n - 1) |-> IF i % 2 = 1 THEN 98 ELSE 97])

BoundaryLens ==
    {0, 1, AttLimit - Len(Label) - 1, AttLimit - Len(Label), AttLimit - Len(Label) + 1,
     AttLimit - 1, AttLimit, AttLimit + 1}
BoundaryFiles ==
    {None} \cup {AsciiFile(n) : n \in BoundaryLens}
           \cup {AccentFile(n) : n \in {AttLimit - Len(Label), AttLimit - Len(Label) + 1}}

BoundaryInputs ==
    [audio_input : {FALSE}, speech : {NoSpeech},
     typed : {TextHi, Str(<<"o", "k">>), Str(<<"?">>)},
     txtattachment : BoundaryFiles, image : {None}, url : {Str(<<>>), UrlImage}]

\* The first turn of a session.
BoundaryRun == \E in \in BoundaryInputs : ScriptRun(in, 1)

NextBoundary == FirstRun \/ GreetingRaises \/ BoundaryRun \/ Returns \/ Raises

SpecBoundary == Init /\ [][NextBoundary]_vars

-----------------------------------------------------------------------------
(* Rendering a log whose model message is an arbitrary short text *)

Fragments ==
    {Fence, <<Backtick>>, KwGraph, <<"d", "i">>, <<"{">>, <<"}">>, <<"x">>}

RECURSIVE Flatten(_)
Flatten(ss) == IF ss = <<>> THEN <<>> ELSE Head(ss) \o Flatten(Tail(ss))

\* Every text that is the concatenation of at most MaxFragments fragments.
RenderTexts ==
    {Flatten(fs) : fs \in UNION {[1..k -> Fragments] : k \in 0..MaxFragments}}

\* The greeted session after one text-only turn that the service answered with text t.
AnsweredWith(t) ==
    LET question == UserMessage(TextHi, <<>>, <<>>)
        answer == ModelMessage([kind |-> "response", text |-> Str(t)])
    IN  /\ welcome = [kind |-> "response", text |-> TextGraph]
        /\ chat_session = append_message(append_message(<<>>, question), answer)
        /\ appended = <<question, answer>>
        /\ calls = <<Route(question)>>
        /\ prmt = question
        /\ pc = "idle"
        /\ notices = <<>>
        /\ decoded = {}
        /\ raised = None
        /\ charts = <<>>
        /\ runs = 1
        /\ widgets = [QuietWidgets EXCEPT !.typed = TextHi]

InitRender == \E t \in RenderTexts : AnsweredWith(t)

Rerun == ScriptRun(QuietWidgets, MaxRuns)

NextRender == Rerun

SpecRender == InitRender /\ [][NextRender]_vars

-----------------------------------------------------------------------------
(* Properties *)

\* Lines 85-99 read each entry through its 'user' key: the log as messages.
ReadAll(log) == [i \in 1..Len(log) |-> log[i].user]

IsUser(message) == message.role = "user"
IsModel(message) == message.role = "model"

\* The step is a script run that read a non-empty prompt.
RunWithPrompt == runs' = runs + 1 /\ Truthy(ReadPrompt(widgets').prompt)

\* The step changes neither the log nor the calls issued, and no call is pending.
NothingSent ==
    /\ chat_session' = chat_session
    /\ appended' = appended
    /\ calls' = calls
    /\ pc' = "idle"

\* C1: whenever no run is in progress, every remote call that was issued for a
\* user message has been answered by one model message in the log, whether the
\* call succeeded or failed.
C1_EveryAttemptAnswered ==
    pc = "idle" => Len(SelectSeq(ReadAll(chat_session), IsModel)) = Len(calls)

\* The text a run adds to the prompt, what the attachment decodes to, and that
\* with the label in front.
AddedText == SubSeq(prmt.parts[1].chars, Len(widgets.typed.chars) + 1,
                    Len(prmt.parts[1].chars))
Content == Utf8Decode(widgets.txtattachment.bytes).chars
Labelled == Label \o Content
Attached == runs > 0 /\ prmt # None /\ Truthy(widgets.txtattachment)

\* C2 as stated: an attachment of exactly 5000 characters is passed into the
\* message unmodified, and one of exactly 5001 characters becomes 5000
\* characters followed by the ellipsis.
C2_LimitOnAttachment ==
    Attached =>
        /\ Len(Content) = AttLimit => AddedText = Label \o Content
        /\ Len(Content) = AttLimit + 1 =>
              /\ Len(AddedText) = AttLimit + Len(Ellipsis)
              /\ SubSeq(AddedText, AttLimit + 1, AttLimit + Len(Ellipsis)) = Ellipsis

\* C2 as amended: the limit is on the attachment together with its label.  When
\* label and attachment are exactly 5000 characters long they are passed into
\* the message unmodified; when they are exactly 5001 characters long they
\* become their first 5000 characters followed by the ellipsis.
C2_LimitOnLabelledText ==
    Attached =>
        /\ Len(Labelled) = AttLimit => AddedText = Labelled
        /\ Len(Labelled) = AttLimit + 1 =>
              AddedText = SubSeq(Labelled, 1, AttLimit) \o Ellipsis

C2_AtTheLimit ==
    /\ Attached
    /\ pc = "awaiting_response"
    /\ Len(Labelled) = AttLimit
    /\ Len(Content) < Len(widgets.txtattachment.bytes)
    /\ AddedText = Labelled

\* C3: the calls issued are, in order, one per user message of the log: the
\* vision call with both parts for a message of two parts, the chat call with
\* the text for a message of one part.
C3_RoutedByPartCount ==
    LET users == SelectSeq(ReadAll(chat_session), IsUser)
    IN  /\ Len(calls) = Len(users)
        /\ \A i \in 1..Len(users) :
              /\ Len(users[i].parts) = 2 =>
                    calls[i] = [api |-> "vision.generate_content", arg |-> users[i].parts]
              /\ Len(users[i].parts) = 1 =>
                    calls[i] = [api |-> "chat.send_message", arg |-> users[i].parts[1]]

C3_BothRoutesTaken ==
    /\ pc = "idle"
    /\ raised \in CallFailures
    /\ \E i, j \in 1..Len(calls) :
          /\ calls[i].api = "vision.generate_content"
          /\ calls[j].api = "chat.send_message"

\* C4: in a run with a non-empty prompt the image part of the message sent comes
\* from the URL whenever a URL is given, and then an upload is not decoded; it
\* comes from the upload when only an upload is given; there is none when
\* neither is given.
C4_UrlBeforeUpload ==
    [][RunWithPrompt =>
          LET w == widgets'
              sent == pc' = "awaiting_response"
              FromSource(origin, name) ==
                  /\ Len(prmt'.parts) = 2
                  /\ prmt'.parts[2].kind = "image"
                  /\ prmt'.parts[2].origin = origin
                  /\ prmt'.parts[2].name = name
          IN  /\ Truthy(w.url) /\ Truthy(w.image) => "upload" \notin decoded'
              /\ Truthy(w.url) /\ sent => FromSource("url", w.url.chars)
              /\ ~Truthy(w.url) /\ Truthy(w.image) /\ sent =>
                    FromSource("upload", w.image.name)
              /\ ~Truthy(w.url) /\ ~Truthy(w.image) /\ sent => Len(prmt'.parts) = 1
      ]_vars

C4_BothSupplied ==
    /\ runs > 0
    /\ pc = "awaiting_response"
    /\ Truthy(widgets.url)
    /\ Truthy(widgets.image)
    /\ prmt.parts[2].origin = "url"
    /\ decoded = {"url"}

\* The attachment failures of a run, from what it read.
TextDecodeFails(w) ==
    Truthy(w.txtattachment) /\ ~Utf8Decode(w.txtattachment.bytes).ok
UrlFetchFails(w) == Truthy(w.url) /\ ~HttpGet(w.url).ok
ImageDecodeFails(w) ==
    IF Truthy(w.url) THEN HttpGet(w.url).ok /\ ~HttpGet(w.url).raw.isImage
    ELSE Truthy(w.image) /\ ~w.image.isImage
AttachmentFails(w) == TextDecodeFails(w) \/ UrlFetchFails(w) \/ ImageDecodeFails(w)

\* C5: a run with a non-empty prompt in which decoding the text attachment,
\* fetching the image URL or decoding the image fails leaves the log as it was
\* and issues no remote call.
C5_NoPartialSend ==
    [][RunWithPrompt /\ AttachmentFails(widgets') => NothingSent]_vars

C5_AbortedTurn ==
    /\ runs > 0
    /\ Truthy(ReadPrompt(widgets).prompt)
    /\ ~TextDecodeFails(widgets)
    /\ ImageDecodeFails(widgets)
    /\ raised = Exc(TyUnidentifiedImageError, MsgNoImage)
    /\ pc = "idle"
    /\ Len(chat_session) = 2
    /\ Len(calls) = 1

\* C6: a run with audio input on in which no microphone is available, the
\* speech is unintelligible or the recognition service cannot be reached shows
\* a warning or an error (the no-microphone warning when there is none), leaves
\* the log as it was and issues no remote call.
C6_SpeechFailureSendsNothing ==
    [][(/\ runs' = runs + 1
        /\ widgets'.audio_input
        /\ widgets'.speech.outcome \in
              {"no_microphone", "mic_list_error", "unintelligible", "service_unreachable"})
       => /\ \E i \in 1..Len(notices') : notices'[i].level \in {"warning", "error"}
          /\ widgets'.speech.outcome = "no_microphone" =>
                notices' = <<Notice("warning", "No microphone found")>>
          /\ NothingSent
      ]_vars

C6_NoMicrophone ==
    /\ runs > 0
    /\ widgets.audio_input
    /\ widgets.speech.outcome = "no_microphone"
    /\ Truthy(widgets.txtattachment)
    /\ notices = <<Notice("warning", "No microphone found")>>
    /\ Len(chat_session) = 2
    /\ Len(calls) = 1
    /\ pc = "idle"

\* The pieces of a text that lie between an opening fence and the fence that
\* closes it: every second piece of the split, unless no fence follows it.
FencedSegments(text) ==
    LET pieces == Split(text, Fence)
    IN  [k \in 1..((Len(pieces) - 1) \div 2) |-> pieces[2 * k]]

\* C7: the graphs drawn for a model message are exactly its fenced segments
\* that contain '{', '}' and 'graph' or 'digraph', in order, duplicates kept;
\* text outside a fence is not among them.
C7_OnlyFencedSegments ==
    runs > 1 =>
        charts = SelectSeq(FencedSegments(chat_session[2].user.parts.chars),
                           LooksLikeGraph)

\* C8: every step leaves the log as it was or extends it at the end, and the
\* log read back is the sequence of messages appended, in the order appended.
C8_AppendOnly ==
    [][/\ Len(chat_session') >= Len(chat_session)
       /\ SubSeq(chat_session', 1, Len(chat_session)) = chat_session
       /\ ReadAll(chat_session') = appended'
      ]_vars

C8_DuplicatesKept ==
    /\ Len(chat_session) = 4
    /\ chat_session[3] = chat_session[1]
    /\ chat_session[4] = chat_session[2]
    /\ chat_session[1] # chat_session[2]

\* C9: every message of the log has role 'user' or 'model'; a user message is
\* a text, or a text followed by an image; the parts of a model message are one
\* text; the message a run assembles has role 'user'.
C9_MessageShape ==
    /\ \A i \in 1..Len(chat_session) :
          LET m == chat_session[i].user
          IN  /\ m.role \in {"user", "model"}
              /\ m.role = "user" =>
                    /\ Len(m.parts) \in {1, 2}
                    /\ m.parts[1].kind = "str"
                    /\ Len(m.parts) = 2 => m.parts[2].kind = "image"
              /\ m.role = "model" => m.parts.kind = "str"
    /\ prmt # None => prmt.role = "user"

C9_AllShapes ==
    /\ Len(chat_session) = 3
    /\ Len(chat_session[1].user.parts) = 2
    /\ chat_session[2].user =
          [role |-> "model",
           parts |-> Str(TyValueError \o <<":", " ">> \o MsgBlocked)]
    /\ Len(chat_session[3].user.parts) = 1

\* C10: the first entry of the log is a user message, every model message
\* directly follows a user message, and every user message but the last entry
\* is directly followed by a model message.
C10_TurnStructure ==
    LET log == ReadAll(chat_session)
        n == Len(log)
    IN  /\ n > 0 => log[1].role = "user"
        /\ \A i \in 1..n : log[i].role = "model" => i > 1 /\ log[i - 1].role = "user"
        /\ \A i \in 1..n : log[i].role = "user" /\ i < n => log[i + 1].role = "model"

=============================================================================
